---- MODULE Spec2Model ----
(***************************************************************************)
(* Model of src/app.py: a Flask proxy in front of two upstream providers   *)
(* with a process-wide usage ledger (usage_data) keyed by calendar day and *)
(* month.  Request handlers run concurrently (app.run serves each request  *)
(* on its own thread); the ledger is a plain dict read and written without *)
(* any lock, so every dict read, dict write and clock read of a handler is *)
(* a separate atomic step.                                                 *)
(*                                                                         *)
(* A handler's local (today, month, the count just read) is reset once     *)
(* nothing reads it again; stats, response and resp live until the handler *)
(* returns.  The clock is a (year-month, day) pair that moves forward only,*)
(* by a midnight inside a month or a midnight ending a month; months have  *)
(* no fixed length.                                                        *)
(***************************************************************************)
EXTENDS Integers, FiniteSets, Sequences, TLC

\* ------------------------------------------------------------------ bounds
MaxRequests == 2
MaxTicks == 1

\* ------------------------------------------------------- program constants
DAILY_LIMIT == 100

\* Two handler threads: the least concurrency in which every race of two
\* handlers on the ledger occurs.
Threads == {"t1", "t2"}

\* The routes of the application.
Paths == {"/", "/health", "/api/usage", "/api/odds", "/api/ratings", "/api/games",
          "/api/teams"}

\* The view function a path is routed to.  get_ratings, get_games and
\* get_teams are one text but for the upstream URL and the season parameter,
\* neither of which reaches the ledger or the reply: "get_stats" stands for
\* the three.
Route(path) ==
    CASE path \in {"/", "/health"} -> "health"
      [] path = "/api/usage" -> "usage"
      [] path = "/api/odds" -> "get_odds"
      [] OTHER -> "get_stats"

Handlers == {Route(p) : p \in Paths}
ProxyHandlers == {"get_odds", "get_stats"}

\* Upstream HTTP statuses and raw response bodies the model draws from: a
\* JSON document in a spelling jsonify would not produce, a second document,
\* and a body that is not JSON.
Statuses == {200, 404}
UpstreamBodies == {"{ \"error\" : \"nf\" }", "[]", "<html>"}
\* Ways requests.get can raise instead of returning a response.
TransportFailures == {"ConnectionError", "Timeout"}

VARIABLES
    CBBD_API_KEY,   \* TRUE iff the statistics-provider credential is non-empty
    ODDS_API_KEY,   \* TRUE iff the odds-provider credential is non-empty
    usage_data,     \* [daily |-> dict, monthly |-> dict]
    clock,          \* date.today(): [month |-> year-month index, day |-> day of month]
    pc,             \* per handler thread: position in the handler
    ep,             \* per thread: the view function serving its request
    response,       \* per thread: local `response`, what requests.get returned
    today,          \* per thread: local `today` (a day-key)
    month,          \* per thread: local `month` (a month-key)
    count,          \* per thread: value last read from a dict with .get(key, 0)
    stats,          \* per thread: value returned by its last get_usage_stats()
    resp,           \* per thread: (status, payload) returned to the caller
    called,         \* per thread: requests.get was issued for this request
    wrote,          \* per thread: this request stored into usage_data
    started,        \* number of requests accepted so far
    ticks,          \* number of clock advances so far
    incReturned,    \* history: number of increment_usage() calls that returned
    dirty,          \* history, per thread: a ledger write happened since its snapshot began
    moved           \* history, per thread: the clock advanced since its snapshot began

vars == <<CBBD_API_KEY, ODDS_API_KEY, usage_data, clock, pc, ep, response, today,
          month, count, stats, resp, called, wrote, started, ticks, incReturned,
          dirty, moved>>

\* ------------------------------------------------------------ Python dicts
EmptyDict == <<>>

\* d.get(k, 0)
DictGet(d, k) == IF k \in DOMAIN d THEN d[k] ELSE 0

\* d[k] = v
DictSet(d, k, v) == [x \in (DOMAIN d) \cup {k} |-> IF x = k THEN v ELSE d[x]]

Max(a, b) == IF a >= b THEN a ELSE b

\* ------------------------------------------------------------------ clock
\* A day-key cut with the month's format: it does not change at midnight.
get_today_key_month_format(c) == <<c.month>>

\* date.today().isoformat(): "YYYY-MM-DD", the year-month and the day.
get_today_key(c) == <<c.month, c.day>>

\* date.today().strftime("%Y-%m"): the year-month alone.
get_month_key(c) == <<c.month>>

NoKey == <<>>

\* ----------------------------------------------------------- JSON bodies
\* response.json(): the parsed document, or a failure.
response_json(text) ==
    CASE text = "{\"error\":\"nf\"}"     -> [ok |-> TRUE,  doc |-> "object(error=nf)"]
      [] text = "{ \"error\" : \"nf\" }" -> [ok |-> TRUE,  doc |-> "object(error=nf)"]
      [] text = "[]"                     -> [ok |-> TRUE,  doc |-> "array()"]
      [] OTHER                           -> [ok |-> FALSE, doc |-> "JSONDecodeError"]

\* jsonify(doc): the canonical serialisation of a parsed document.
jsonify(doc) ==
    CASE doc = "object(error=nf)" -> "{\"error\":\"nf\"}"
      [] doc = "array()"          -> "[]"
      [] OTHER                    -> "null"

NoStats == [today |-> 0 - 1, todayRemaining |-> 0 - 1, month |-> 0 - 1, dailyLimit |-> 0 - 1]

\* Payloads of the proxy's own responses.
ErrorPayload(msg, code) ==
    [kind |-> "error", msg |-> msg, code |-> code, text |-> "", usage |-> NoStats]
RawPayload(text) ==
    [kind |-> "raw", msg |-> "", code |-> 0, text |-> text, usage |-> NoStats]
UsagePayload(s) ==
    [kind |-> "usage", msg |-> "", code |-> 0, text |-> "", usage |-> s]
HealthPayload(s) ==
    [kind |-> "health", msg |-> "CBB Edge Finder Proxy", code |-> 0, text |-> "", usage |-> s]

\* No response object yet / the text of a response nothing has read yet.
NoResponse == [status_code |-> 0, text |-> ""]
Unread == "(unread)"

NoResp == [status |-> 0, body |-> ErrorPayload("", 0)]
Reply(status, body) == [status |-> status, body |-> body]

\* ---------------------------------------------------------- get_usage_stats
\* The same dict without the floor at zero.
UsageStats_no_floor(today_count, month_count) ==
    [today |-> today_count,
     todayRemaining |-> DAILY_LIMIT - today_count,
     month |-> month_count,
     dailyLimit |-> DAILY_LIMIT]

\* The dict built by get_usage_stats from the two counts it has read.
UsageStats(today_count, month_count) ==
    [today |-> today_count,
     todayRemaining |-> Max(0, DAILY_LIMIT - today_count),
     month |-> month_count,
     dailyLimit |-> DAILY_LIMIT]

\* What one uninterrupted get_usage_stats() call returns in the current state.
SnapshotNow ==
    UsageStats(DictGet(usage_data.daily, get_today_key(clock)),
               DictGet(usage_data.monthly, get_month_key(clock)))

\* ------------------------------------------------------------------ router
\* Every handler testing the odds credential.
KeyConfigured_odds_key_everywhere(h) == ODDS_API_KEY

\* The credential check opening each proxy handler.
KeyConfigured(h) == IF h = "get_odds" THEN ODDS_API_KEY ELSE CBBD_API_KEY

\* get_odds counting its successes like the other three.
Counted_odds_too(h) == h \in {"get_odds", "get_stats"}

\* Whether a handler calls increment_usage() on an upstream 200.
Counted(h) == h = "get_stats"

\* The except branch of every handler: 500 with str(e).
ExceptReply(why) == Reply(500, ErrorPayload(why, 0))

\* The configuration-error reply.
NotConfiguredReply(h) ==
    Reply(500, ErrorPayload(IF h = "get_odds" THEN "ODDS_API_KEY not configured"
                                              ELSE "CBBD_API_KEY not configured", 0))

\* return jsonify(response.json()) [, status]: raises into the except branch
\* when the body is not JSON.
PassThrough(r, status) ==
    LET parsed == response_json(r.text)
    IN  IF parsed.ok THEN Reply(status, RawPayload(jsonify(parsed.doc)))
                     ELSE ExceptReply(parsed.doc)

\* The else branch answering 500 whatever the upstream's status was.
ErrorReply_always_500(h, r) ==
    IF h = "get_odds"
    THEN PassThrough(r, 500)
    ELSE Reply(500, ErrorPayload("API returned", r.status_code))

\* The else branch (status_code != 200) of a handler.
ErrorReply(h, r) ==
    IF h = "get_odds"
    THEN PassThrough(r, r.status_code)
    ELSE Reply(r.status_code, ErrorPayload("API returned", r.status_code))

\* ------------------------------------------------------------------- Init
InitLocals ==
    /\ pc = [t \in Threads |-> "idle"]
    /\ ep = [t \in Threads |-> "health"]
    /\ response = [t \in Threads |-> NoResponse]
    /\ today = [t \in Threads |-> NoKey]
    /\ month = [t \in Threads |-> NoKey]
    /\ count = [t \in Threads |-> 0]
    /\ stats = [t \in Threads |-> NoStats]
    /\ resp = [t \in Threads |-> NoResp]
    /\ called = [t \in Threads |-> FALSE]
    /\ wrote = [t \in Threads |-> FALSE]
    /\ dirty = [t \in Threads |-> FALSE]
    /\ moved = [t \in Threads |-> FALSE]
    /\ started = 0
    /\ ticks = 0

Init ==
    /\ CBBD_API_KEY \in BOOLEAN
    /\ ODDS_API_KEY \in BOOLEAN
    /\ usage_data = [daily |-> EmptyDict, monthly |-> EmptyDict]
    /\ clock = [month |-> 1, day |-> 1]
    /\ incReturned = 0
    /\ InitLocals

\* ---------------------------------------------------------- history helpers
\* pc values at which increment_usage has written daily but not yet monthly.
Partway == {"inc_monthly_get", "inc_monthly_set"}

\* Thread t is inside increment_usage (its trailing get_usage_stats included).
InIncrement(t) ==
    \/ pc[t] \in {"inc_today", "inc_month", "inc_daily_get", "inc_daily_set",
                  "inc_monthly_get", "inc_monthly_set"}
    \/ /\ pc[t] \in {"stats_today", "stats_month", "stats_daily_get", "stats_monthly_get"}
       /\ Counted(ep[t])

\* Thread t has begun a get_usage_stats() call whose result it still holds.
HoldsSnapshot(t) ==
    \/ pc[t] \in {"stats_month", "stats_daily_get", "stats_monthly_get"}
    \/ stats[t] # NoStats

Flagged(f) == [t \in Threads |-> f[t] \/ HoldsSnapshot(t)]

\* ------------------------------------------------------------ the handlers
\* A request arrives on thread t: routing and the credential check
\* (health and usage go straight to get_usage_stats).
Accept(t) ==
    /\ pc[t] = "idle"
    /\ started < MaxRequests
    /\ started' = started + 1
    /\ \E path \in Paths :
        LET h == Route(path)
        IN  /\ ep' = [ep EXCEPT ![t] = h]
            /\ IF h \in ProxyHandlers
               THEN IF KeyConfigured(h)
                    THEN /\ pc' = [pc EXCEPT ![t] = "requests_get"]
                         /\ called' = [called EXCEPT ![t] = TRUE]
                         /\ resp' = resp
                    ELSE /\ pc' = [pc EXCEPT ![t] = "done"]
                         /\ resp' = [resp EXCEPT ![t] = NotConfiguredReply(h)]
                         /\ called' = called
               ELSE /\ pc' = [pc EXCEPT ![t] = "stats_today"]
                    /\ UNCHANGED <<resp, called>>
    /\ UNCHANGED <<response, wrote, CBBD_API_KEY, ODDS_API_KEY, usage_data, clock, today, month, count,
                   stats, ticks, incReturned, dirty, moved>>

\* requests.get(...) ends: it raises, or returns a response whose status
\* the handler branches on.  The body of a 200 response to a counted handler
\* is first looked at by response.json(), after increment_usage(): which
\* body it is is drawn there (ResponseJson).
RequestsGet(t) ==
    /\ pc[t] = "requests_get"
    /\ \/ \E why \in TransportFailures :
            /\ resp' = [resp EXCEPT ![t] = ExceptReply(why)]
            /\ pc' = [pc EXCEPT ![t] = "done"]
            /\ response' = response
       \/ \E s \in Statuses, b \in UpstreamBodies :
            LET r == [status_code |-> s, text |-> b]
            IN  IF s = 200
                THEN IF Counted(ep[t])
                     THEN /\ response' = [response EXCEPT ![t] = [r EXCEPT !.text = Unread]]
                          /\ pc' = [pc EXCEPT ![t] = "inc_today"]
                          /\ resp' = resp
                     ELSE /\ response' = [response EXCEPT ![t] = r]
                          /\ resp' = [resp EXCEPT ![t] = PassThrough(r, 200)]
                          /\ pc' = [pc EXCEPT ![t] = "done"]
                ELSE /\ response' = [response EXCEPT ![t] = r]
                     /\ resp' = [resp EXCEPT ![t] = ErrorReply(ep[t], r)]
                     /\ pc' = [pc EXCEPT ![t] = "done"]
    /\ UNCHANGED <<wrote, CBBD_API_KEY, ODDS_API_KEY, usage_data, clock, ep, today, month,
                   count, stats, called, started, ticks, incReturned, dirty, moved>>

\* increment_usage: today = get_today_key()
IncTodayKey(t) ==
    /\ pc[t] = "inc_today"
    /\ today' = [today EXCEPT ![t] = get_today_key(clock)]
    /\ pc' = [pc EXCEPT ![t] = "inc_month"]
    /\ UNCHANGED <<response, wrote, CBBD_API_KEY, ODDS_API_KEY, usage_data, clock, ep, month, count,
                   stats, resp, called, started, ticks, incReturned, dirty, moved>>

\* increment_usage: month = get_month_key()
IncMonthKey(t) ==
    /\ pc[t] = "inc_month"
    /\ month' = [month EXCEPT ![t] = get_month_key(clock)]
    /\ pc' = [pc EXCEPT ![t] = "inc_daily_get"]
    /\ UNCHANGED <<response, wrote, CBBD_API_KEY, ODDS_API_KEY, usage_data, clock, ep, today, count,
                   stats, resp, called, started, ticks, incReturned, dirty, moved>>

\* increment_usage: the read usage_data["daily"].get(today, 0)
IncDailyGet(t) ==
    /\ pc[t] = "inc_daily_get"
    /\ count' = [count EXCEPT ![t] = DictGet(usage_data.daily, today[t])]
    /\ pc' = [pc EXCEPT ![t] = "inc_daily_set"]
    /\ UNCHANGED <<response, wrote, CBBD_API_KEY, ODDS_API_KEY, usage_data, clock, ep, today, month,
                   stats, resp, called, started, ticks, incReturned, dirty, moved>>

\* increment_usage: the store usage_data["daily"][today] = ... + 1
IncDailySet(t) ==
    /\ pc[t] = "inc_daily_set"
    /\ usage_data' = [usage_data EXCEPT !.daily = DictSet(@, today[t], count[t] + 1)]
    /\ pc' = [pc EXCEPT ![t] = "inc_monthly_get"]
    /\ count' = [count EXCEPT ![t] = 0]
    /\ today' = [today EXCEPT ![t] = NoKey]
    /\ dirty' = Flagged(dirty)
    /\ wrote' = [wrote EXCEPT ![t] = TRUE]
    /\ UNCHANGED <<response, CBBD_API_KEY, ODDS_API_KEY, clock, ep, month, stats, resp, called,
                   started, ticks, incReturned, moved>>

\* increment_usage: the read usage_data["monthly"].get(month, 0)
IncMonthlyGet(t) ==
    /\ pc[t] = "inc_monthly_get"
    /\ count' = [count EXCEPT ![t] = DictGet(usage_data.monthly, month[t])]
    /\ pc' = [pc EXCEPT ![t] = "inc_monthly_set"]
    /\ UNCHANGED <<response, wrote, CBBD_API_KEY, ODDS_API_KEY, usage_data, clock, ep, today, month,
                   stats, resp, called, started, ticks, incReturned, dirty, moved>>

\* increment_usage: the store usage_data["monthly"][month] = ... + 1, then
\* the call of get_usage_stats().
IncMonthlySet(t) ==
    /\ pc[t] = "inc_monthly_set"
    /\ usage_data' = [usage_data EXCEPT !.monthly = DictSet(@, month[t], count[t] + 1)]
    /\ pc' = [pc EXCEPT ![t] = "stats_today"]
    /\ count' = [count EXCEPT ![t] = 0]
    /\ month' = [month EXCEPT ![t] = NoKey]
    /\ dirty' = Flagged(dirty)
    /\ wrote' = [wrote EXCEPT ![t] = TRUE]
    /\ UNCHANGED <<response, CBBD_API_KEY, ODDS_API_KEY, clock, ep, today, stats, resp, called,
                   started, ticks, incReturned, moved>>

\* get_usage_stats: today = get_today_key()
StatsTodayKey(t) ==
    /\ pc[t] = "stats_today"
    /\ today' = [today EXCEPT ![t] = get_today_key(clock)]
    /\ pc' = [pc EXCEPT ![t] = "stats_month"]
    /\ dirty' = [dirty EXCEPT ![t] = FALSE]
    /\ moved' = [moved EXCEPT ![t] = FALSE]
    /\ UNCHANGED <<response, wrote, CBBD_API_KEY, ODDS_API_KEY, usage_data, clock, ep, month, count,
                   stats, resp, called, started, ticks, incReturned>>

\* get_usage_stats: month = get_month_key()
StatsMonthKey(t) ==
    /\ pc[t] = "stats_month"
    /\ month' = [month EXCEPT ![t] = get_month_key(clock)]
    /\ pc' = [pc EXCEPT ![t] = "stats_daily_get"]
    /\ UNCHANGED <<response, wrote, CBBD_API_KEY, ODDS_API_KEY, usage_data, clock, ep, today, count,
                   stats, resp, called, started, ticks, incReturned, dirty, moved>>

\* The read done with setdefault(today, 0): it creates the key it misses.
StatsDailyGet_setdefault(t) ==
    /\ pc[t] = "stats_daily_get"
    /\ count' = [count EXCEPT ![t] = DictGet(usage_data.daily, today[t])]
    /\ usage_data' = [usage_data EXCEPT
                         !.daily = DictSet(@, today[t], DictGet(@, today[t]))]
    /\ today' = [today EXCEPT ![t] = NoKey]
    /\ pc' = [pc EXCEPT ![t] = "stats_monthly_get"]
    /\ UNCHANGED <<response, wrote, CBBD_API_KEY, ODDS_API_KEY, clock, ep, month, stats,
                   resp, called, started, ticks, incReturned, dirty, moved>>

\* get_usage_stats: today_count = usage_data["daily"].get(today, 0)
StatsDailyGet(t) ==
    /\ pc[t] = "stats_daily_get"
    /\ count' = [count EXCEPT ![t] = DictGet(usage_data.daily, today[t])]
    /\ today' = [today EXCEPT ![t] = NoKey]
    /\ pc' = [pc EXCEPT ![t] = "stats_monthly_get"]
    /\ UNCHANGED <<response, wrote, CBBD_API_KEY, ODDS_API_KEY, usage_data, clock, ep, month, stats,
                   resp, called, started, ticks, incReturned, dirty, moved>>

\* get_usage_stats: month_count = usage_data["monthly"].get(month, 0) and the
\* return; the caller (health, usage or increment_usage) goes on.
StatsMonthlyGet(t) ==
    /\ pc[t] = "stats_monthly_get"
    /\ LET s == UsageStats(count[t], DictGet(usage_data.monthly, month[t]))
       IN  /\ stats' = [stats EXCEPT ![t] = s]
           /\ IF Counted(ep[t])
              THEN /\ pc' = [pc EXCEPT ![t] = "response_json"]
                   /\ incReturned' = incReturned + 1
                   /\ resp' = resp
              ELSE /\ pc' = [pc EXCEPT ![t] = "done"]
                   /\ incReturned' = incReturned
                   /\ resp' = [resp EXCEPT ![t] =
                                  Reply(200, IF ep[t] = "health" THEN HealthPayload(s)
                                                                 ELSE UsagePayload(s))]
    /\ count' = [count EXCEPT ![t] = 0]
    /\ month' = [month EXCEPT ![t] = NoKey]
    /\ UNCHANGED <<response, wrote, CBBD_API_KEY, ODDS_API_KEY, usage_data, clock, ep, today, called,
                   started, ticks, dirty, moved>>

\* A counted handler after increment_usage(): return jsonify(response.json())
ResponseJson(t) ==
    /\ pc[t] = "response_json"
    /\ \E b \in UpstreamBodies :
         /\ response' = [response EXCEPT ![t].text = b]
         /\ resp' = [resp EXCEPT ![t] = PassThrough(response'[t], 200)]
    /\ pc' = [pc EXCEPT ![t] = "done"]
    /\ UNCHANGED <<wrote, CBBD_API_KEY, ODDS_API_KEY, usage_data, clock, ep, today, month,
                   count, stats, called, started, ticks, incReturned, dirty, moved>>

\* The response leaves; the thread's locals die with the request.
Return(t) ==
    /\ pc[t] = "done"
    /\ pc' = [pc EXCEPT ![t] = "idle"]
    /\ ep' = [ep EXCEPT ![t] = "health"]
    /\ stats' = [stats EXCEPT ![t] = NoStats]
    /\ resp' = [resp EXCEPT ![t] = NoResp]
    /\ called' = [called EXCEPT ![t] = FALSE]
    /\ wrote' = [wrote EXCEPT ![t] = FALSE]
    /\ response' = [response EXCEPT ![t] = NoResponse]
    /\ dirty' = [dirty EXCEPT ![t] = FALSE]
    /\ moved' = [moved EXCEPT ![t] = FALSE]
    /\ UNCHANGED <<CBBD_API_KEY, ODDS_API_KEY, usage_data, clock, today, month, count,
                   started, ticks, incReturned>>

\* ------------------------------------------------------------------ clock
ClockMoved ==
    /\ ticks < MaxTicks
    /\ ticks' = ticks + 1
    /\ moved' = Flagged(moved)
    /\ UNCHANGED <<response, wrote, CBBD_API_KEY, ODDS_API_KEY, usage_data, pc, ep, today, month, count,
                   stats, resp, called, started, incReturned, dirty>>

\* Midnight inside a month.
TickDay ==
    /\ clock' = [clock EXCEPT !.day = @ + 1]
    /\ ClockMoved

\* Midnight at the end of a month.
TickMonth ==
    /\ clock' = [month |-> clock.month + 1, day |-> 1]
    /\ ClockMoved

Next ==
    \/ \E t \in Threads : Accept(t)
    \/ \E t \in Threads : RequestsGet(t)
    \/ \E t \in Threads : IncTodayKey(t)
    \/ \E t \in Threads : IncMonthKey(t)
    \/ \E t \in Threads : IncDailyGet(t)
    \/ \E t \in Threads : IncDailySet(t)
    \/ \E t \in Threads : IncMonthlyGet(t)
    \/ \E t \in Threads : IncMonthlySet(t)
    \/ \E t \in Threads : StatsTodayKey(t)
    \/ \E t \in Threads : StatsMonthKey(t)
    \/ \E t \in Threads : StatsDailyGet(t)
    \/ \E t \in Threads : StatsMonthlyGet(t)
    \/ \E t \in Threads : ResponseJson(t)
    \/ \E t \in Threads : Return(t)
    \/ TickDay
    \/ TickMonth

Spec == Init /\ [][Next]_vars

\* The process after DAILY_LIMIT - 1 counted requests served one after the
\* other on the first day: the ledger one short of the daily limit.
InitNearLimit ==
    /\ CBBD_API_KEY \in BOOLEAN
    /\ ODDS_API_KEY \in BOOLEAN
    /\ clock = [month |-> 1, day |-> 1]
    /\ usage_data = [daily |-> DictSet(EmptyDict, get_today_key(clock), DAILY_LIMIT - 1),
                     monthly |-> DictSet(EmptyDict, get_month_key(clock), DAILY_LIMIT - 1)]
    /\ incReturned = DAILY_LIMIT - 1
    /\ InitLocals

SpecNearLimit == InitNearLimit /\ [][Next]_vars

\* ======================================================================
\* Properties
\* ======================================================================
IncrementPcs == {"inc_today", "inc_month", "inc_daily_get", "inc_daily_set",
                 "inc_monthly_get", "inc_monthly_set"}
StatsPcs == {"stats_today", "stats_month", "stats_daily_get", "stats_monthly_get"}

\* Thread t takes the step.
Steps(t) == pc'[t] # pc[t]

\* The credential thread t's handler needs is unset.
CredentialMissing(t) ==
    \/ ep[t] = "get_odds" /\ ~ODDS_API_KEY
    \/ ep[t] = "get_stats" /\ ~CBBD_API_KEY

\* C1: no increment is lost: once every increment_usage() call made so far
\* has returned, with the clock still on the first day-key, today and month
\* both equal the number of calls.
C1_NoLostIncrement ==
    ((\A t \in Threads : ~InIncrement(t)) /\ ticks = 0)
        => /\ SnapshotNow.today = incReturned
           /\ SnapshotNow.month = incReturned

\* C2: a counted request whose upstream status is 200 raises the count of
\* its day-key and of its month-key by exactly 1 (each of its two stores
\* leaves the count one higher than it was), and a request whose upstream
\* status is not 200 changes no count.
C2_CountedExactlyOnce ==
    [][\A t \in Threads :
        /\ (pc[t] = "inc_daily_set" /\ Steps(t))
              => DictGet(usage_data'.daily, today[t])
                     = DictGet(usage_data.daily, today[t]) + 1
        /\ (pc[t] = "inc_monthly_set" /\ Steps(t))
              => DictGet(usage_data'.monthly, month[t])
                     = DictGet(usage_data.monthly, month[t]) + 1
        /\ (Steps(t) /\ pc[t] \notin {"inc_daily_set", "inc_monthly_set"})
              => usage_data' = usage_data
        /\ (pc'[t] \in IncrementPcs) => response'[t].status_code = 200
      ]_vars

\* A reply to an upstream failure, as the claim C3 has it: the upstream's
\* status, with the upstream's JSON document when the body parses and an
\* error payload when it does not.
ForwardsUpstreamError(t) ==
    LET parsed == response_json(response[t].text)
    IN  /\ resp[t].status = response[t].status_code
        /\ IF parsed.ok
           THEN /\ resp[t].body.kind = "raw"
                /\ response_json(resp[t].body.text) = parsed
           ELSE resp[t].body.kind = "error"

\* Thread t has answered an upstream response whose status was not 200.
AnsweredUpstreamFailure(t) ==
    /\ pc[t] = "done"
    /\ response[t] # NoResponse
    /\ response[t].status_code # 200

C4_OddsNeverCounts ==
    [][\A t \in Threads :
        /\ (Steps(t) /\ ep[t] = "get_odds" /\ pc[t] # "idle")
              => usage_data' = usage_data
        /\ (ep'[t] = "get_odds") => (pc'[t] \notin IncrementPcs /\ ~wrote'[t])
      ]_vars

\* An odds request that succeeded, after a counted request was counted.
C4_Witness ==
    \E t \in Threads :
        /\ pc[t] = "done"
        /\ ep[t] = "get_odds"
        /\ resp[t].status = 200
        /\ SnapshotNow.today = 1

\* C5: a request to a counted endpoint that returns 500 to the caller has
\* stored nothing into the ledger.
C5_FailedRequestNotCounted ==
    \A t \in Threads :
        (pc[t] = "done" /\ ep[t] = "get_stats" /\ resp[t].status = 500) => ~wrote[t]

\* Every ledger seen while no increment is between its two stores and the
\* clock has not moved has its month counted whenever its day is.
LedgerPairedWhenQuiescent ==
    ((\A t \in Threads : pc[t] \notin Partway) /\ ticks = 0)
        => (SnapshotNow.today >= 1 => SnapshotNow.month >= 1)

\* C6: a snapshot is never torn: with every increment in the current month
\* (the clock has not moved), no snapshot shows the daily count raised while
\* the monthly count is still 0.
C6_SnapshotNotTorn ==
    ticks = 0 =>
        \A t \in Threads :
            (stats[t] # NoStats /\ stats[t].today >= 1) => stats[t].month >= 1

\* C7: when the clock advances to the next day of the same month, an
\* uninterrupted snapshot then shows today = 0, the count stored for the
\* day before is what it was, and month is unchanged; and a store that
\* creates a day-key creates it with the value 1.
C7_DayRollover ==
    [][/\ (clock'.month = clock.month /\ clock'.day = clock.day + 1)
            => /\ SnapshotNow'.today = 0
               /\ DictGet(usage_data'.daily, <<clock.month, clock.day>>)
                      = DictGet(usage_data.daily, <<clock.month, clock.day>>)
               /\ SnapshotNow'.month = SnapshotNow.month
       /\ \A k \in (DOMAIN usage_data'.daily) \ (DOMAIN usage_data.daily) :
              usage_data'.daily[k] = 1
      ]_vars

\* The second day of the month, counted once after the first day was.
C7_Witness ==
    /\ clock = [month |-> 1, day |-> 2]
    /\ DictGet(usage_data.daily, <<1, 1>>) = 1
    /\ DictGet(usage_data.daily, <<1, 2>>) = 1
    /\ SnapshotNow.today = 1
    /\ SnapshotNow.month = 2

\* C8: every snapshot's todayRemaining is max(0, dailyLimit - today) for the
\* today of the same snapshot, past the limit too; and a counted request
\* that is about to store is never held back by the limit.
C8_RemainingFloored ==
    /\ \A t \in Threads :
          stats[t] # NoStats =>
              /\ stats[t].todayRemaining
                     = (IF stats[t].today >= DAILY_LIMIT THEN 0
                        ELSE DAILY_LIMIT - stats[t].today)
              /\ stats[t].todayRemaining >= 0
              /\ stats[t].dailyLimit = DAILY_LIMIT
    /\ \A t \in Threads :
          /\ pc[t] = "inc_daily_set" => ENABLED IncDailySet(t)
          /\ pc[t] = "inc_monthly_set" => ENABLED IncMonthlySet(t)

\* A snapshot taken past the daily limit.
C8_Witness ==
    \E t \in Threads :
        /\ stats[t] # NoStats
        /\ stats[t].today > DAILY_LIMIT
        /\ stats[t].todayRemaining = 0

\* C9: with its credential unset a proxy request is answered 500 with the
\* "not configured" error at once: no upstream call, no store into the ledger.
C9_NoCredentialShortCircuit ==
    \A t \in Threads :
        (pc[t] # "idle" /\ CredentialMissing(t)) =>
            /\ pc[t] = "done"
            /\ resp[t].status = 500
            /\ resp[t].body.kind = "error"
            /\ resp[t].body.msg = (IF ep[t] = "get_odds" THEN "ODDS_API_KEY not configured"
                                                         ELSE "CBBD_API_KEY not configured")
            /\ ~called[t]
            /\ ~wrote[t]
            /\ response[t] = NoResponse

\* A statistics request refused for its credential while the odds
\* credential is set.
C9_Witness ==
    \E t \in Threads :
        /\ pc[t] = "done"
        /\ ep[t] = "get_stats"
        /\ ~CBBD_API_KEY
        /\ ODDS_API_KEY
        /\ resp[t].status = 500

\* No step of get_usage_stats changes the ledger.
SnapshotReadsOnly ==
    \A t \in Threads : (pc[t] \in StatsPcs /\ Steps(t)) => usage_data' = usage_data

\* C10 (as stated): reading usage changes nothing in the ledger, and any two
\* snapshots with no store into the ledger since either began are identical.
C10_SnapshotsIdenticalWithoutIncrement ==
    [][/\ SnapshotReadsOnly
       /\ \A t, u \in Threads :
             (/\ stats'[t] # NoStats /\ ~dirty'[t]
              /\ stats'[u] # NoStats /\ ~dirty'[u]) => stats'[t] = stats'[u]
      ]_vars

\* C10 (amended): reading usage changes nothing in the ledger, and any two
\* snapshots with no store into the ledger and no day or month rollover
\* since either began are identical: each is what an uninterrupted
\* get_usage_stats() returns now.
C10_ReadOnlySnapshot ==
    [][/\ SnapshotReadsOnly
       /\ \A t, u \in Threads :
             (/\ stats'[t] # NoStats /\ ~dirty'[t] /\ ~moved'[t]
              /\ stats'[u] # NoStats /\ ~dirty'[u] /\ ~moved'[u])
                 => /\ stats'[t] = stats'[u]
                    /\ stats'[t] = SnapshotNow'
      ]_vars

\* Two threads each holding a snapshot of a counted ledger, nothing having
\* happened since either began.
C10_Witness ==
    /\ \A t \in Threads : stats[t] # NoStats /\ ~dirty[t] /\ ~moved[t]
    /\ SnapshotNow.today = 1
    /\ \E t \in Threads : ep[t] \in {"health", "usage"} /\ pc[t] = "done"
====
